---------------------------- MODULE Spec2Model ----------------------------
(***************************************************************************)
(* A model of the input-polling demo: the Input interface and its concrete *)
(* strategies (Keyboard, GameController, NullInput), InputFactory::Create, *)
(* and the Game loop driven by main.                                        *)
(*                                                                         *)
(* std::default_random_engine is implementation-defined, so the stream of  *)
(* Bernoulli outcomes that an engine seeded with a given constant yields   *)
(* is a fixed but unknown function of (seed, probability, position).  The  *)
(* variable tape reveals that function lazily: the first draw at a         *)
(* position chooses the outcome, every later draw at the same position of  *)
(* the same stream reads it back.                                          *)
(***************************************************************************)
EXTENDS Integers, Sequences, FiniteSets, TLC

VARIABLES
    pc,      \* control position of main / Game, or "test" in the query harness
    device,  \* the name handed to InputFactory::Create by main
    heap,    \* the Input objects alive, by the name of the pointer owning each
    thrown,  \* the exception in flight (<<>> when none)
    tape,    \* the generator streams revealed so far, per <<seed, probability>>
    count,   \* Game's local iteration counter
    out,     \* the lines printed to standard output
    calls,   \* every virtual query made: [obj, query, ret]
    runs     \* the output of each earlier, completed run of the program

vars == <<pc, device, heap, thrown, tape, count, out, calls, runs>>

---------------------------------------------------------------------------
(* Bound of the query harness: the number of queries it makes *)
MaxCalls == 3

(* Program constants; probabilities are in percent *)
KeyboardSeed == 12345
KeyboardProb == 50
GameControllerSeed == 99999
GameControllerProb == 30
CountInit == 5

RecognizedNames == {"keyboard", "gamecontroller", "null"}
DeviceNames == RecognizedNames \cup {"", "Keyboard", " keyboard", "mouse"}
Queries == {"Up", "Down", "Left", "Right"}
Separator == "==================="
\* main's unique_ptr is input; the query harness owns two pointers, a and b
Handles == {"a", "b"}

Seeds == {KeyboardSeed, GameControllerSeed}
Probs == {KeyboardProb, GameControllerProb}
StreamKeys == Seeds \X Probs

---------------------------------------------------------------------------
(* The standard library's generator and distribution *)

\* std::default_random_engine constructed from a seed: no output drawn yet
Engine(seed) == [seed |-> seed, pos |-> 0]

\* The outcomes a bernoulli_distribution with probability p percent can give:
\* it draws a uniform u in [0,1) and answers u < p
Bernoulli(p) == {u < p : u \in 0..99}

\* dist(engine) for a distribution of probability p: advances the engine by
\* one draw and returns the outcome of the stream at the new position
Draw(engine, p, tp) ==
    LET key == <<engine.seed, p>>
        n == engine.pos + 1
        next == [engine EXCEPT !.pos = n]
    IN IF n <= Len(tp[key])
       THEN {[ret |-> tp[key][n], engine |-> next, tape |-> tp]}
       ELSE {[ret |-> b, engine |-> next,
              tape |-> [tp EXCEPT ![key] = Append(@, b)]] : b \in Bernoulli(p)}

---------------------------------------------------------------------------
(* Keyboard *)

NewKeyboard == [kind |-> "Keyboard", m_Engine |-> Engine(KeyboardSeed)]

\* Mutant: the engine is seeded afresh from an entropy source on every call,
\* so the outcome is not the stream's
KeyboardSimulateInputUnseeded(self, tp) ==
    {[ret |-> b, obj |-> [self EXCEPT !.m_Engine.pos = @ + 1], tape |-> tp] :
        b \in Bernoulli(KeyboardProb)}

KeyboardSimulateInput(self, tp) ==
    {[ret |-> d.ret, obj |-> [self EXCEPT !.m_Engine = d.engine], tape |-> d.tape] :
        d \in Draw(self.m_Engine, KeyboardProb, tp)}

KeyboardUp(self, tp) == KeyboardSimulateInput(self, tp)
KeyboardDown(self, tp) == KeyboardSimulateInput(self, tp)
KeyboardLeft(self, tp) == KeyboardSimulateInput(self, tp)
\* Mutant: Right() answers without drawing
KeyboardRightNoDraw(self, tp) == {[ret |-> FALSE, obj |-> self, tape |-> tp]}
KeyboardRight(self, tp) == KeyboardSimulateInput(self, tp)

---------------------------------------------------------------------------
(* GameController: the members are declared in the header; the member      *)
(* functions are defined outside the sources at hand and follow the        *)
(* description "identical mechanism" to Keyboard's                          *)

\* Mutant: the members copied from Keyboard unchanged
NewGameControllerKeyboardDefaults ==
    [kind |-> "GameController", m_Engine |-> Engine(KeyboardSeed),
     m_Dist |-> KeyboardProb]

NewGameController ==
    [kind |-> "GameController", m_Engine |-> Engine(GameControllerSeed),
     m_Dist |-> GameControllerProb]

GameControllerSimulateInput(self, tp) ==
    {[ret |-> d.ret, obj |-> [self EXCEPT !.m_Engine = d.engine], tape |-> d.tape] :
        d \in Draw(self.m_Engine, self.m_Dist, tp)}

GameControllerUp(self, tp) == GameControllerSimulateInput(self, tp)
GameControllerDown(self, tp) == GameControllerSimulateInput(self, tp)
GameControllerLeft(self, tp) == GameControllerSimulateInput(self, tp)
GameControllerRight(self, tp) == GameControllerSimulateInput(self, tp)

---------------------------------------------------------------------------
(* NullInput: no members *)

NewNullInput == [kind |-> "NullInput"]

NullInputUp(self, tp) == {[ret |-> FALSE, obj |-> self, tape |-> tp]}
\* Mutant: Down() returns true
NullInputDownTrue(self, tp) == {[ret |-> TRUE, obj |-> self, tape |-> tp]}
NullInputDown(self, tp) == {[ret |-> FALSE, obj |-> self, tape |-> tp]}
NullInputLeft(self, tp) == {[ret |-> FALSE, obj |-> self, tape |-> tp]}
NullInputRight(self, tp) == {[ret |-> FALSE, obj |-> self, tape |-> tp]}

---------------------------------------------------------------------------
(* Any other implementation of the Input interface handed to Game: a stub  *)
(* that answers each query with a fixed boolean                             *)

Stubs == {[kind |-> "Stub", Up |-> u, Down |-> d, Left |-> l, Right |-> r] :
            u \in BOOLEAN, d \in BOOLEAN, l \in BOOLEAN, r \in BOOLEAN}

StubQuery(self, q, tp) == {[ret |-> self[q], obj |-> self, tape |-> tp]}

---------------------------------------------------------------------------
(* Virtual dispatch through Input& *)

InputUp(self, tp) ==
    CASE self.kind = "Keyboard" -> KeyboardUp(self, tp)
      [] self.kind = "GameController" -> GameControllerUp(self, tp)
      [] self.kind = "NullInput" -> NullInputUp(self, tp)
      [] self.kind = "Stub" -> StubQuery(self, "Up", tp)

InputDown(self, tp) ==
    CASE self.kind = "Keyboard" -> KeyboardDown(self, tp)
      [] self.kind = "GameController" -> GameControllerDown(self, tp)
      [] self.kind = "NullInput" -> NullInputDown(self, tp)
      [] self.kind = "Stub" -> StubQuery(self, "Down", tp)

InputLeft(self, tp) ==
    CASE self.kind = "Keyboard" -> KeyboardLeft(self, tp)
      [] self.kind = "GameController" -> GameControllerLeft(self, tp)
      [] self.kind = "NullInput" -> NullInputLeft(self, tp)
      [] self.kind = "Stub" -> StubQuery(self, "Left", tp)

InputRight(self, tp) ==
    CASE self.kind = "Keyboard" -> KeyboardRight(self, tp)
      [] self.kind = "GameController" -> GameControllerRight(self, tp)
      [] self.kind = "NullInput" -> NullInputRight(self, tp)
      [] self.kind = "Stub" -> StubQuery(self, "Right", tp)

InputQuery(self, q, tp) ==
    CASE q = "Up" -> InputUp(self, tp)
      [] q = "Down" -> InputDown(self, tp)
      [] q = "Left" -> InputLeft(self, tp)
      [] q = "Right" -> InputRight(self, tp)

---------------------------------------------------------------------------
(* InputFactory::Create: the object returned, or the exception thrown *)

InvalidArgument(dev) ==
    [type |-> "invalid_argument",
     what |-> <<"InputFactory: unknown device '", dev, "'">>]

\* Mutant: the name is compared ignoring case
CreateIgnoringCase(dev) ==
    IF dev \in {"keyboard", "Keyboard"} THEN [ok |-> TRUE, obj |-> NewKeyboard]
    ELSE IF dev = "gamecontroller" THEN [ok |-> TRUE, obj |-> NewGameController]
    ELSE IF dev = "null" THEN [ok |-> TRUE, obj |-> NewNullInput]
    ELSE [ok |-> FALSE, exc |-> InvalidArgument(dev)]

\* Mutant: the "gamecontroller" branch constructs a Keyboard
CreateWrongBranch(dev) ==
    IF dev = "keyboard" THEN [ok |-> TRUE, obj |-> NewKeyboard]
    ELSE IF dev = "gamecontroller" THEN [ok |-> TRUE, obj |-> NewKeyboard]
    ELSE IF dev = "null" THEN [ok |-> TRUE, obj |-> NewNullInput]
    ELSE [ok |-> FALSE, exc |-> InvalidArgument(dev)]

Create(dev) ==
    IF dev = "keyboard" THEN [ok |-> TRUE, obj |-> NewKeyboard]
    ELSE IF dev = "gamecontroller" THEN [ok |-> TRUE, obj |-> NewGameController]
    ELSE IF dev = "null" THEN [ok |-> TRUE, obj |-> NewNullInput]
    ELSE [ok |-> FALSE, exc |-> InvalidArgument(dev)]

---------------------------------------------------------------------------
(* main and Game.  The object Game polls is the one main's input owns. *)

EmptyTape == [k \in StreamKeys |-> <<>>]

\* The virtual call input.q(): updates the object, the tape and the call log
CallInput(q, r) ==
    /\ heap' = [heap EXCEPT !["input"] = r.obj]
    /\ tape' = r.tape
    /\ calls' = Append(calls, [obj |-> "input", query |-> q, ret |-> r.ret])

\* main: auto input = InputFactory::Create(device)
MainCreate ==
    /\ pc = "main"
    /\ LET c == Create(device)
       IN IF c.ok
          THEN /\ heap' = ("input" :> c.obj)
               /\ pc' = "game"
               /\ UNCHANGED thrown
          ELSE /\ thrown' = <<c.exc>>
               /\ pc' = "terminated"
               /\ UNCHANGED heap
    /\ UNCHANGED <<device, tape, count, out, calls, runs>>

\* Game(*input): int count{5}
GameEnter ==
    /\ pc = "game"
    /\ count' = CountInit
    /\ pc' = "loop"
    /\ UNCHANGED <<device, heap, thrown, tape, out, calls, runs>>

\* Mutant: while (count != 1)
GameLoopOffByOne ==
    /\ pc = "loop"
    /\ IF count # 1
       THEN /\ out' = Append(out, Separator)
            /\ pc' = "pitch"
       ELSE /\ pc' = "done"
            /\ UNCHANGED out
    /\ UNCHANGED <<device, heap, thrown, tape, count, calls, runs>>

\* while (count != 0) { print separator
GameLoop ==
    /\ pc = "loop"
    /\ IF count # 0
       THEN /\ out' = Append(out, Separator)
            /\ pc' = "pitch"
       ELSE /\ pc' = "done"
            /\ UNCHANGED out
    /\ UNCHANGED <<device, heap, thrown, tape, count, calls, runs>>

\* Mutant: Down() is queried whatever Up() returned (if, not else if)
GameUpNoShortCircuit ==
    /\ pc = "pitch"
    /\ \E r \in InputUp(heap["input"], tape) :
          /\ CallInput("Up", r)
          /\ IF r.ret
             THEN out' = Append(out, "Pitch up")
             ELSE UNCHANGED out
    /\ pc' = "pitchElse"
    /\ UNCHANGED <<device, thrown, count, runs>>

\* if (input.Up()) print "Pitch up"
GameUp ==
    /\ pc = "pitch"
    /\ \E r \in InputUp(heap["input"], tape) :
          /\ CallInput("Up", r)
          /\ IF r.ret
             THEN /\ out' = Append(out, "Pitch up")
                  /\ pc' = "roll"
             ELSE /\ pc' = "pitchElse"
                  /\ UNCHANGED out
    /\ UNCHANGED <<device, thrown, count, runs>>

\* Mutant: the final else branch is missing
GameDownNoLevelLine ==
    /\ pc = "pitchElse"
    /\ \E r \in InputDown(heap["input"], tape) :
          /\ CallInput("Down", r)
          /\ IF r.ret
             THEN out' = Append(out, "Pitch down")
             ELSE UNCHANGED out
    /\ pc' = "roll"
    /\ UNCHANGED <<device, thrown, count, runs>>

\* else if (input.Down()) print "Pitch down" else print "Plane is level"
GameDown ==
    /\ pc = "pitchElse"
    /\ \E r \in InputDown(heap["input"], tape) :
          /\ CallInput("Down", r)
          /\ out' = Append(out, IF r.ret THEN "Pitch down" ELSE "Plane is level")
    /\ pc' = "roll"
    /\ UNCHANGED <<device, thrown, count, runs>>

\* if (input.Left()) print "Roll left"
GameLeft ==
    /\ pc = "roll"
    /\ \E r \in InputLeft(heap["input"], tape) :
          /\ CallInput("Left", r)
          /\ IF r.ret
             THEN /\ out' = Append(out, "Roll left")
                  /\ pc' = "iterEnd"
             ELSE /\ pc' = "rollElse"
                  /\ UNCHANGED out
    /\ UNCHANGED <<device, thrown, count, runs>>

\* else if (input.Right()) print "Roll right" else print "Plane is flying straight"
GameRight ==
    /\ pc = "rollElse"
    /\ \E r \in InputRight(heap["input"], tape) :
          /\ CallInput("Right", r)
          /\ out' = Append(out, IF r.ret THEN "Roll right"
                                         ELSE "Plane is flying straight")
    /\ pc' = "iterEnd"
    /\ UNCHANGED <<device, thrown, count, runs>>

\* Mutant: count -= 2
GameIterEndByTwo ==
    /\ pc = "iterEnd"
    /\ out' = Append(out, "")
    /\ count' = count - 2
    /\ pc' = "loop"
    /\ UNCHANGED <<device, heap, thrown, tape, calls, runs>>

\* print blank line; sleep_for(1s); --count
GameIterEnd ==
    /\ pc = "iterEnd"
    /\ out' = Append(out, "")
    /\ count' = count - 1
    /\ pc' = "loop"
    /\ UNCHANGED <<device, heap, thrown, tape, calls, runs>>

\* main as written requests a device by name; Game may equally be handed any
\* other Input, here a stub (device is then "")
Init ==
    /\ runs = <<>>
    /\ thrown = <<>>
    /\ tape = EmptyTape
    /\ count = 0
    /\ out = <<>>
    /\ calls = <<>>
    /\ \/ /\ pc = "main"
          /\ device \in DeviceNames
          /\ heap = <<>>
       \/ /\ pc = "game"
          /\ device = ""
          /\ heap \in {("input" :> s) : s \in Stubs}

Next ==
    \/ MainCreate
    \/ GameEnter
    \/ GameLoop
    \/ GameUp
    \/ GameDown
    \/ GameLeft
    \/ GameRight
    \/ GameIterEnd

Spec == Init /\ [][Next]_vars

---------------------------------------------------------------------------
(* A client of the factory and of the Input interface other than main: it  *)
(* creates instances by name and queries them in any order.                *)

\* h = InputFactory::Create(name); an exception is caught by the client
TestCreate(h, name) ==
    /\ pc = "test"
    /\ h \notin DOMAIN heap
    /\ device' = name
    /\ LET c == Create(name)
       IN IF c.ok
          THEN /\ heap' = heap @@ (h :> c.obj)
               /\ thrown' = <<>>
          ELSE /\ thrown' = <<c.exc>>
               /\ UNCHANGED heap
    /\ UNCHANGED <<pc, tape, count, out, calls, runs>>

\* One virtual call h->q()
TestQuery(h, q) ==
    /\ pc = "test"
    /\ Len(calls) < MaxCalls
    /\ h \in DOMAIN heap
    /\ \E r \in InputQuery(heap[h], q, tape) :
          /\ heap' = [heap EXCEPT ![h] = r.obj]
          /\ tape' = r.tape
          /\ calls' = Append(calls, [obj |-> h, query |-> q, ret |-> r.ret])
    /\ UNCHANGED <<pc, device, thrown, count, out, runs>>

InitQueries ==
    /\ pc = "test"
    /\ device = ""
    /\ heap = <<>>
    /\ thrown = <<>>
    /\ tape = EmptyTape
    /\ count = 0
    /\ out = <<>>
    /\ calls = <<>>
    /\ runs = <<>>

NextQueries ==
    \/ \E h \in Handles, name \in DeviceNames : TestCreate(h, name)
    \/ \E h \in Handles, q \in Queries : TestQuery(h, q)

SpecQueries == InitQueries /\ [][NextQueries]_vars

---------------------------------------------------------------------------
(* main as written, with its literal "keyboard", run to completion and     *)
(* then once more in a fresh process of the same build: the generator's    *)
(* stream is the same function in both.  Beside it, the query harness.     *)

InitMain ==
    /\ pc = "main"
    /\ device = "keyboard"
    /\ heap = <<>>
    /\ thrown = <<>>
    /\ tape = EmptyTape
    /\ count = 0
    /\ out = <<>>
    /\ calls = <<>>
    /\ runs = <<>>

\* The first process has exited; the program is started again
MainRestart ==
    /\ pc = "done"
    /\ runs = <<>>
    /\ runs' = <<out>>
    /\ pc' = "main"
    /\ heap' = <<>>
    /\ count' = 0
    /\ out' = <<>>
    /\ calls' = <<>>
    /\ UNCHANGED <<device, thrown, tape>>

NextRuns ==
    \/ Next
    \/ MainRestart
    \/ NextQueries

SpecRuns == (InitMain \/ InitQueries) /\ [][NextRuns]_vars

---------------------------------------------------------------------------
(* Vocabulary of the properties *)

PitchLines == {"Pitch up", "Pitch down", "Plane is level"}
RollLines == {"Roll left", "Roll right", "Plane is flying straight"}
NullBlock == <<Separator, "Plane is level", "Plane is flying straight", "">>
GamePcs == {"loop", "pitch", "pitchElse", "roll", "rollElse", "iterEnd", "done"}
RandomKinds == {"Keyboard", "GameController"}

RECURSIVE Repeat(_, _)
Repeat(block, n) == IF n = 0 THEN <<>> ELSE block \o Repeat(block, n - 1)

IsPrefix(s, t) == Len(s) <= Len(t) /\ SubSeq(t, 1, Len(s)) = s

\* The calls made on the object h owns, in order, and their answers
CallsOn(h) == SelectSeq(calls, LAMBDA c : c.obj = h)
Rets(h) == [i \in 1..Len(CallsOn(h)) |-> CallsOn(h)[i].ret]
QueriesOf(h) == {CallsOn(h)[i].query : i \in 1..Len(CallsOn(h))}

\* The number of calls of query q, and of those answered with b
NumCalls(q) == Cardinality({i \in 1..Len(calls) : calls[i].query = q})
NumRets(q, b) ==
    Cardinality({i \in 1..Len(calls) : calls[i].query = q /\ calls[i].ret = b})

\* The iteration of Game that made call i, and that iteration's output lines
Block(i) == Cardinality({j \in 1..i : calls[j].query = "Up"})
HasLine(j, line) == j <= Len(out) /\ out[j] = line
PitchIs(k, line) == HasLine(4 * (k - 1) + 2, line)
RollIs(k, line) == HasLine(4 * (k - 1) + 3, line)
NumLines(line) == Cardinality({j \in 1..Len(out) : out[j] = line})
Iterations == Cardinality({j \in 1..Len(out) : out[j] = ""})

Contains(msg, name) == \E i \in 1..Len(msg) : msg[i] = name

---------------------------------------------------------------------------
\* C1: a Create call with a name other than "keyboard", "gamecontroller" and
\* "null" (the empty string, "Keyboard", " keyboard", ...) throws
\* invalid_argument with a message containing that name, and leaves the set
\* of Input objects as it was: nothing is returned, nothing constructed.
C1_UnknownNameThrows ==
    [][(calls' = calls /\ device' \notin RecognizedNames) =>
          /\ heap' = heap
          /\ Len(thrown') = 1
          /\ thrown'[1].type = "invalid_argument"
          /\ Contains(thrown'[1].what, device')]_vars

C1_Witness ==
    /\ pc = "test"
    /\ device = "Keyboard"
    /\ thrown # <<>>
    /\ DOMAIN heap = {"a"}
    /\ Len(calls) = 2

\* What Create(name) is to construct for a recognized name
C2_Fresh(obj, name) ==
    CASE name = "keyboard" ->
            obj = [kind |-> "Keyboard", m_Engine |-> [seed |-> 12345, pos |-> 0]]
      [] name = "gamecontroller" ->
            obj = [kind |-> "GameController",
                   m_Engine |-> [seed |-> 99999, pos |-> 0], m_Dist |-> 30]
      [] name = "null" -> obj = [kind |-> "NullInput"]

\* C2: a Create call with a recognized name returns a new object of exactly
\* the corresponding class in its initial state, and leaves every other
\* object as it was; an object's generator has advanced by the calls made on
\* that object alone, so two instances never share generator state.
C2_RecognizedNameConstructs ==
    /\ [][(calls' = calls /\ device' \in RecognizedNames) =>
             \E h \in Handles \ DOMAIN heap :
                /\ DOMAIN heap' = DOMAIN heap \cup {h}
                /\ \A g \in DOMAIN heap : heap'[g] = heap[g]
                /\ C2_Fresh(heap'[h], device')
                /\ thrown' = <<>>]_vars
    /\ [](\A h \in DOMAIN heap :
             heap[h].kind \in RandomKinds =>
                heap[h].m_Engine.pos = Len(CallsOn(h)))

C2_Witness ==
    /\ DOMAIN heap = {"a", "b"}
    /\ heap["a"].kind = "Keyboard"
    /\ heap["b"].kind = "Keyboard"
    /\ heap["a"].m_Engine.pos = 2
    /\ heap["b"].m_Engine.pos = 0

\* C3: on every object Create returns, each of Up, Down, Left and Right can
\* be called and answers with a boolean; a GameController answers each query
\* with one draw from its own generator, seeded 99999 (not Keyboard's seed),
\* with probability 0.3 (not Keyboard's 0.5).
C3_QueriesCallable ==
    \A h \in DOMAIN heap :
        /\ heap[h].kind \in {"Keyboard", "GameController", "NullInput"}
        /\ \A q \in Queries :
              LET rs == InputQuery(heap[h], q, tape)
              IN /\ rs # {}
                 /\ \A r \in rs : r.ret \in BOOLEAN /\ r.obj.kind = heap[h].kind
        /\ heap[h].kind = "GameController" =>
              /\ heap[h].m_Engine.seed = 99999
              /\ heap[h].m_Dist = 30
              /\ heap[h].m_Engine.seed # KeyboardSeed
              /\ heap[h].m_Dist # KeyboardProb
              /\ heap[h].m_Engine.pos = Len(CallsOn(h))
              /\ \A q \in Queries : \A r \in InputQuery(heap[h], q, tape) :
                    /\ r.obj.m_Engine.pos = heap[h].m_Engine.pos + 1
                    /\ r.obj.m_Engine.seed = heap[h].m_Engine.seed
                    /\ r.obj.m_Dist = heap[h].m_Dist

C3_Witness ==
    /\ "a" \in DOMAIN heap
    /\ heap["a"].kind = "GameController"
    /\ Len(CallsOn("a")) = 3
    /\ Cardinality(QueriesOf("a")) = 3
    /\ {Rets("a")[i] : i \in 1..3} = BOOLEAN

\* C4: every call made on a NullInput, whatever the query and whatever came
\* before, returned false; a NullInput has no members, and no call on it
\* changes it or anything else.
C4_NullInputAlwaysFalse ==
    /\ \A i \in 1..Len(calls) :
          heap[calls[i].obj].kind = "NullInput" => calls[i].ret = FALSE
    /\ \A h \in DOMAIN heap :
          heap[h].kind = "NullInput" =>
             /\ DOMAIN heap[h] = {"kind"}
             /\ \A q \in Queries : \A r \in InputQuery(heap[h], q, tape) :
                   r.ret = FALSE /\ r.obj = heap[h] /\ r.tape = tape

C4_Witness ==
    /\ "a" \in DOMAIN heap
    /\ heap["a"].kind = "NullInput"
    /\ Len(CallsOn("a")) = 3
    /\ Cardinality(QueriesOf("a")) = 3
    /\ "b" \in DOMAIN heap

\* C8: two instances of the same pseudo-random class return the same answer
\* to their i-th query, whichever of Up, Down, Left and Right each of the two
\* i-th queries is: every query is one draw from the instance's one
\* generator, whose seed is fixed.  So a second run of main prints, line by
\* line, what the first run printed.
C8_SameSeedSameSequence ==
    /\ \A g \in DOMAIN heap, h \in DOMAIN heap :
          (g # h /\ heap[g].kind = heap[h].kind /\ heap[g].kind \in RandomKinds) =>
              /\ \A i \in (DOMAIN Rets(g)) \cap (DOMAIN Rets(h)) :
                    Rets(g)[i] = Rets(h)[i]
              /\ heap[g].m_Engine.pos = Len(CallsOn(g))
              /\ heap[g].m_Engine.seed = heap[h].m_Engine.seed
    /\ runs # <<>> =>
          /\ IsPrefix(out, runs[1])
          /\ pc = "done" => out = runs[1]

C8_Witness ==
    /\ DOMAIN heap = {"a", "b"}
    /\ heap["a"].kind = "Keyboard"
    /\ heap["b"].kind = "Keyboard"
    /\ Len(CallsOn("a")) = 2
    /\ Len(CallsOn("b")) = 1
    /\ CallsOn("a")[1].query = "Up"
    /\ CallsOn("b")[1].query = "Right"
    /\ CallsOn("a")[1].ret = TRUE

\* C5: Game run on a NullInput prints the block separator, "Plane is level",
\* "Plane is flying straight", blank line, over and over and nothing else,
\* and when it returns it has printed exactly 5 such blocks (5 being the
\* iteration count of the code).
C5_NullInputOutput ==
    ("input" \in DOMAIN heap /\ heap["input"].kind = "NullInput") =>
        /\ IsPrefix(out, Repeat(NullBlock, 5))
        /\ pc = "done" => (out = Repeat(NullBlock, 5) /\ Iterations = 5)
        /\ pc # "done" => ENABLED Next

C5_Witness ==
    /\ pc = "done"
    /\ device = "null"
    /\ heap["input"].kind = "NullInput"
    /\ Len(out) = 20
    /\ Len(calls) = 20

\* C6: whenever Up() returned true, that iteration's pitch line is "Pitch up"
\* and the next query is Left(), not Down(); whenever Left() returned true,
\* that iteration's roll line is "Roll left" and the next query is the next
\* iteration's Up(), not Right().  Down() and Right() are queried only right
\* after Up(), respectively Left(), returned false, and "Pitch down" and
\* "Roll right" are printed only for a Down(), respectively Right(), that
\* returned true.  For every Input, also one whose four queries all return
\* true.
C6_UpAndLeftHavePriority ==
    /\ \A i \in 1..Len(calls) :
          /\ (calls[i].query = "Up" /\ calls[i].ret) =>
                /\ PitchIs(Block(i), "Pitch up")
                /\ i < Len(calls) => calls[i + 1].query = "Left"
          /\ (calls[i].query = "Left" /\ calls[i].ret) =>
                /\ RollIs(Block(i), "Roll left")
                /\ i < Len(calls) => calls[i + 1].query = "Up"
          /\ calls[i].query = "Down" => (i > 1 /\ calls[i - 1] =
                [obj |-> "input", query |-> "Up", ret |-> FALSE])
          /\ calls[i].query = "Right" => (i > 1 /\ calls[i - 1] =
                [obj |-> "input", query |-> "Left", ret |-> FALSE])
    /\ NumRets("Up", TRUE) = NumLines("Pitch up")
    /\ NumRets("Down", TRUE) = NumLines("Pitch down")
    /\ NumRets("Left", TRUE) = NumLines("Roll left")
    /\ NumRets("Right", TRUE) = NumLines("Roll right")

C6_Witness ==
    /\ pc = "done"
    /\ heap["input"] = [kind |-> "Stub", Up |-> TRUE, Down |-> TRUE,
                        Left |-> TRUE, Right |-> TRUE]
    /\ Len(calls) = 10
    /\ \A j \in 1..Len(out) : out[j] \notin {"Pitch down", "Roll right"}

\* C7: after Create("keyboard"), Game prints, whatever the keyboard answers,
\* lines of which the 1st, 5th, ... is the separator, the 2nd, 6th, ... one
\* pitch line, the 3rd, 7th, ... one roll line and the 4th, 8th, ... blank;
\* when it returns it has printed exactly 5 such blocks, 20 lines.
C7_KeyboardRunShape ==
    (device = "keyboard" /\ pc # "main") =>
        /\ heap["input"].kind = "Keyboard"
        /\ thrown = <<>>
        /\ Len(out) <= 20
        /\ \A j \in 1..Len(out) :
              CASE (j - 1) % 4 = 0 -> out[j] = Separator
                [] (j - 1) % 4 = 1 -> out[j] \in PitchLines
                [] (j - 1) % 4 = 2 -> out[j] \in RollLines
                [] (j - 1) % 4 = 3 -> out[j] = ""
        /\ pc = "done" => (Len(out) = 20 /\ Iterations = 5)
        /\ pc = "loop" => Len(out) % 4 = 0
        /\ pc # "done" => ENABLED Next

C7_Witness ==
    /\ pc = "done"
    /\ device = "keyboard"
    /\ Len(out) = 20
    /\ {out[4 * k - 2] : k \in 1..5} = PitchLines
    /\ {out[4 * k - 1] : k \in 1..5} = RollLines

\* C9: Game's counter is 5 when the loop is first reached, is within 0..5
\* always, is 5 minus the number of iterations completed (so each iteration
\* takes exactly one from it and nothing else changes it), is at least 1
\* inside the loop body, and Game returns exactly when it is 0, after 5
\* iterations, for every Input and every sequence of answers; until then a
\* step is always possible.
C9_CounterCountsIterations ==
    /\ count \in 0..5
    /\ pc \in GamePcs =>
          /\ count = 5 - Iterations
          /\ pc \in GamePcs \ {"loop", "done"} => count >= 1
          /\ pc = "done" => (count = 0 /\ Iterations = 5)
          /\ (pc = "loop" /\ count = 0) => Iterations = 5
          /\ pc # "done" => ENABLED Next
    /\ (pc = "loop" /\ out = <<>>) => count = 5

C9_Witness ==
    /\ pc = "done"
    /\ count = 0
    /\ heap["input"].kind = "GameController"
    /\ Len(calls) = 17

\* The query that follows call c in Game
C10_Successor(c) ==
    CASE c.query = "Up" -> IF c.ret THEN "Left" ELSE "Down"
      [] c.query = "Down" -> "Left"
      [] c.query = "Left" -> IF c.ret THEN "Up" ELSE "Right"
      [] c.query = "Right" -> "Up"

\* C10: the queries of a run are, per iteration and in this order, Up, then
\* Down iff Up returned false, then Left, then Right iff Left returned false;
\* so each iteration makes 2 to 4 queries.  With a Keyboard the i-th query of
\* the run is the i-th draw of its generator, whichever query it is: the
\* generator has advanced by exactly the number of queries made, which is
\* between 10 and 20 when Game returns.
C10_QueryOrderAndDraws ==
    /\ calls # <<>> => calls[1].query = "Up"
    /\ \A i \in 1..(Len(calls) - 1) : calls[i + 1].query = C10_Successor(calls[i])
    /\ NumCalls("Down") = NumRets("Up", FALSE) - (IF pc = "pitchElse" THEN 1 ELSE 0)
    /\ NumCalls("Right") = NumRets("Left", FALSE) - (IF pc = "rollElse" THEN 1 ELSE 0)
    /\ pc \in {"loop", "done"} =>
          /\ NumCalls("Up") = Iterations
          /\ NumCalls("Left") = Iterations
          /\ Len(calls) >= 2 * Iterations
          /\ Len(calls) <= 4 * Iterations
    /\ ("input" \in DOMAIN heap /\ heap["input"].kind = "Keyboard") =>
          /\ heap["input"].m_Engine.pos = Len(calls)
          /\ Len(tape[<<KeyboardSeed, KeyboardProb>>]) = Len(calls)
          /\ \A i \in 1..Len(calls) :
                calls[i].ret = tape[<<KeyboardSeed, KeyboardProb>>][i]
          /\ pc = "done" => (Len(calls) >= 10 /\ Len(calls) <= 20)

C10_Witness ==
    /\ pc = "done"
    /\ heap["input"].kind = "Keyboard"
    /\ Len(calls) = 14
    /\ calls[1].ret = TRUE
    /\ calls[2].query = "Left"
    /\ calls[4].query = "Down"
    /\ calls[5].query = "Left"

=============================================================================
